---- MODULE Spec2Model ----
(***************************************************************************)
(* A model of src/util.cpp of Shotcut: Util::sortedFileList (GoPro clip    *)
(* grouping), Util::getFileHash / Util::getHash (partial file hashing and  *)
(* its memoisation in the properties object) and                           *)
(* Util::applyCustomProperties (time-warp resource bookkeeping).           *)
(*                                                                         *)
(* Strings that the code inspects character by character (file paths) are  *)
(* sequences of UTF-16 code units, so that QString::toUpper, mid, size and *)
(* the case-sensitive operator< are computed as Qt computes them.          *)
(***************************************************************************)
EXTENDS Integers, Sequences, FiniteSets, TLC

VARIABLES
    urls,          \* sortedFileList: the argument of the last call
    result,        \* sortedFileList: the list returned by the last call
    goproFiles,    \* sortedFileList: the QMap as it stands at return
    disk,          \* the file system: path -> file content, or NoFile
    properties,    \* getHash: the Mlt::Properties object
    ret,           \* getHash / getFileHash: the returned QString
    hashPath,      \* getFileHash: the path of the last call, NoCall if it was not called
    opened,        \* getFileHash: the content of the file it opened, NoFile if none
    fileData,      \* getFileHash: the QByteArray handed to QCryptographicHash::hash
    op,            \* the operation performed by the last step
    destination,   \* applyCustomProperties: the destination producer's properties
    source         \* applyCustomProperties: the source producer of the last call

vars == <<urls, result, goproFiles, disk, properties, ret, hashPath, opened, fileData, op, destination, source>>

sortVars == <<urls, result, goproFiles>>
hashVars == <<disk, properties, ret, hashPath, opened, fileData>>
applyVars == <<destination, source>>

Null == "NULL"       \* a property that is not set (mlt_properties_get returns NULL)
NoFile == [error |-> "ENOENT"]     \* at a path QFile::open(ReadOnly) fails on
NoData == [error |-> "not read"]   \* no file was read
NoCall == "NOCALL"   \* getFileHash was not called

-----------------------------------------------------------------------------
(* QString / QStringList primitives over sequences of code units.          *)

\* QChar::toUpper on the Latin letters.
ToUpperChar(c) == IF c \in 97..122 THEN c - 32 ELSE c

\* QString::toUpper
ToUpper(s) == [i \in 1..Len(s) |-> ToUpperChar(s[i])]

\* QString::mid(pos): the string from 0-based position pos to the end.
Mid(s, pos) == IF pos >= Len(s) THEN <<>> ELSE SubSeq(s, pos + 1, Len(s))

\* QString::startsWith
StartsWith(s, p) == Len(p) <= Len(s) /\ SubSeq(s, 1, Len(p)) = p

\* operator<(QString, QString): code units compared lexicographically.
RECURSIVE StrLess(_, _)
StrLess(a, b) ==
    IF b = <<>> THEN FALSE
    ELSE IF a = <<>> THEN TRUE
    ELSE IF Head(a) # Head(b) THEN Head(a) < Head(b)
    ELSE StrLess(Tail(a), Tail(b))

\* A mutation of QStringList::contains: an element that is a prefix of str counts.
ListContains_Prefix(list, str) == \E i \in 1..Len(list) : StartsWith(str, list[i])

\* QStringList::contains(str): some element equals str (the whole string).
ListContains(list, str) == \E i \in 1..Len(list) : list[i] = str

\* Position (1-based) of the last / first occurrence of code unit c in s, 0 if none.
LastIndexOf(s, c) ==
    IF \E i \in 1..Len(s) : s[i] = c
    THEN CHOOSE i \in 1..Len(s) : s[i] = c /\ \A j \in (i + 1)..Len(s) : s[j] # c
    ELSE 0

FirstIndexOf(s, c) ==
    IF \E i \in 1..Len(s) : s[i] = c
    THEN CHOOSE i \in 1..Len(s) : s[i] = c /\ \A j \in 1..(i - 1) : s[j] # c
    ELSE 0

\* Value of a hexadecimal digit, -1 if c is none.
HexVal(c) ==
    IF c \in 48..57 THEN c - 48
    ELSE IF c \in 65..70 THEN c - 55
    ELSE IF c \in 97..102 THEN c - 87
    ELSE -1

\* QUrl::fromPercentEncoding: every %XY with hexadecimal X, Y becomes one unit.
RECURSIVE FromPercentEncoding(_)
FromPercentEncoding(s) ==
    IF s = <<>> THEN <<>>
    ELSE IF s[1] = 37 /\ Len(s) >= 3 /\ HexVal(s[2]) >= 0 /\ HexVal(s[3]) >= 0
         THEN <<16 * HexVal(s[2]) + HexVal(s[3])>> \o FromPercentEncoding(SubSeq(s, 4, Len(s)))
         ELSE <<s[1]>> \o FromPercentEncoding(Tail(s))

\* QStringList::sort(Qt::CaseSensitive): ascending by operator<, by insertion.
RECURSIVE InsertSorted(_, _)
InsertSorted(list, s) ==
    IF list = <<>> THEN <<s>>
    ELSE IF StrLess(s, Head(list)) THEN <<s>> \o list
    ELSE <<Head(list)>> \o InsertSorted(Tail(list), s)

RECURSIVE Sort(_)
Sort(list) == IF list = <<>> THEN <<>> ELSE InsertSorted(Sort(Tail(list)), Head(list))

-----------------------------------------------------------------------------
(* QFileInfo                                                               *)

\* QFileInfo::filePath: the path the object was constructed from.
filePath(path) == path

\* QFileInfo::fileName: what follows the last '/'.
fileName(path) == Mid(path, LastIndexOf(path, 47))

\* QFileInfo::baseName: the file name up to (not including) the first '.'.
baseName(path) ==
    LET n == fileName(path)
        d == FirstIndexOf(n, 46)
    IN  IF d = 0 THEN n ELSE SubSeq(n, 1, d - 1)

\* QFileInfo::suffix: what follows the last '.' of the file name.
suffix(path) ==
    LET n == fileName(path)
        d == LastIndexOf(n, 46)
    IN  IF d = 0 THEN <<>> ELSE Mid(n, d)

-----------------------------------------------------------------------------
(* The file names and URLs the model draws its inputs from.                *)

GOPR0012_MP4 == <<71, 79, 80, 82, 48, 48, 49, 50, 46, 77, 80, 52>>            \* "GOPR0012.MP4"
GP020012_MP4 == <<71, 80, 48, 50, 48, 48, 49, 50, 46, 77, 80, 52>>            \* "GP020012.MP4"
GP030012_MP4 == <<71, 80, 48, 51, 48, 48, 49, 50, 46, 77, 80, 52>>            \* "GP030012.MP4"
clip_mov == <<99, 108, 105, 112, 46, 109, 111, 118>>                          \* "clip.mov"
gh010003_mp4 == <<47, 100, 47, 103, 104, 48, 49, 48, 48, 48, 51, 46, 109, 112, 52>> \* "/d/gh010003.mp4"
GP029999_MP4 == <<71, 80, 48, 50, 57, 57, 57, 57, 46, 77, 80, 52>>            \* "GP029999.MP4"
ABCD0012_MP4 == <<65, 66, 67, 68, 48, 48, 49, 50, 46, 77, 80, 52>>            \* "ABCD0012.MP4"
my_clip_mov_enc == <<109, 121, 37, 50, 48, 99, 108, 105, 112, 46, 109, 111, 118>> \* "my%20clip.mov"
my_clip_mov == <<109, 121, 32, 99, 108, 105, 112, 46, 109, 111, 118>>         \* "my clip.mov"

\* A QUrl: its scheme and its path. QUrl::url() is the whole text,
\* QUrl::toString(PreferLocalFile) of a file: URL is the path alone.
FileUrl(p) == [scheme |-> <<102, 105, 108, 101>>, path |-> p]   \* file:<p>
PlainUrl(p) == [scheme |-> <<>>, path |-> p]                    \* a URL without a scheme

UrlText(url) == IF url.scheme = <<>> THEN url.path ELSE url.scheme \o <<58>> \o url.path

Urls ==
    { FileUrl(GOPR0012_MP4), PlainUrl(GP020012_MP4), FileUrl(GP030012_MP4),
      PlainUrl(clip_mov), FileUrl(gh010003_mp4), PlainUrl(GP029999_MP4),
      FileUrl(ABCD0012_MP4), PlainUrl(my_clip_mov_enc) }

MaxLen == 4

UrlLists == UNION { [1..n -> Urls] : n \in 0..MaxLen }

-----------------------------------------------------------------------------
(* Util::sortedFileList                                                    *)

\* Util::removeFileScheme: the local path of a file: URL, else the URL's text;
\* then percent-decoded.
removeFileScheme(url) ==
    LET path == IF url.scheme = <<102, 105, 108, 101>> THEN url.path ELSE UrlText(url)
    IN  FromPercentEncoding(path)

isValidGoProFirstFilePrefix(info) ==
    ListContains(<< <<71, 79, 80, 82>>, <<71, 72, 48, 49>>, <<71, 83, 48, 49>> >>,  \* GOPR GH01 GS01
                 ToUpper(baseName(info)))

isValidGoProPrefix(info) ==
    ListContains(<< <<71, 80>>, <<71, 72>>, <<71, 83>> >>,                          \* GP GH GS
                 ToUpper(baseName(info)))

isValidGoProSuffix(info) ==
    ListContains(<< <<77, 80, 52>>, <<76, 82, 86>>, <<51, 54, 48>> >>,              \* MP4 LRV 360
                 ToUpper(suffix(info)))

\* QMap<QString, QStringList>: a function from its keys to their lists.
EmptyMap == [k \in {} |-> <<>>]

\* goproFiles[key] << path, operator[] inserting an empty list for a new key.
MapAppend(m, key, path) ==
    [k \in DOMAIN m \cup {key} |->
        IF k = key THEN (IF key \in DOMAIN m THEN m[key] ELSE <<>>) \o <<path>>
        ELSE m[k]]

\* First loop: main files.
RECURSIVE MainFilesPass(_, _)
MainFilesPass(list, m) ==
    IF list = <<>> THEN m
    ELSE LET fi == removeFileScheme(Head(list))
         IN  MainFilesPass(Tail(list),
                IF Len(baseName(fi)) = 8 /\ isValidGoProSuffix(fi) /\ isValidGoProFirstFilePrefix(fi)
                THEN MapAppend(m, Mid(baseName(fi), 4), filePath(fi))
                ELSE m)

\* Second loop: split files, only where a main file opened the group.
RECURSIVE SplitFilesPass(_, _)
SplitFilesPass(list, m) ==
    IF list = <<>> THEN m
    ELSE LET fi == removeFileScheme(Head(list))
             goproNumber == Mid(baseName(fi), 4)
         IN  SplitFilesPass(Tail(list),
                IF /\ Len(baseName(fi)) = 8 /\ isValidGoProSuffix(fi) /\ isValidGoProPrefix(fi)
                   /\ goproNumber \in DOMAIN m /\ Len(m[goproNumber]) > 0
                THEN MapAppend(m, goproNumber, filePath(fi))
                ELSE m)

\* Third loop: every group sorted.
SortGroups(m) == [k \in DOMAIN m |-> Sort(m[k])]

\* The keys of a QMap in iteration order (ascending by operator<).
RECURSIVE KeysInOrder(_)
KeysInOrder(keys) ==
    IF keys = {} THEN <<>>
    ELSE LET least == CHOOSE k \in keys : \A o \in keys \ {k} : StrLess(k, o)
         IN  <<least>> \o KeysInOrder(keys \ {least})

\* Fourth loop: result << paths for every value of the map, in key order.
RECURSIVE Concat(_, _)
Concat(m, keys) == IF keys = <<>> THEN <<>> ELSE m[Head(keys)] \o Concat(m, Tail(keys))

GoProFilesFirst(m) == Concat(m, KeysInOrder(DOMAIN m))

\* A mutation of the last loop's test: the group is not consulted.
SkipAsGrouped_NoLookup(fi, m) ==
    /\ Len(baseName(fi)) = 8
    /\ isValidGoProSuffix(fi)

\* Last loop's test: the file was emitted with its group (the `continue`).
SkipAsGrouped(fi, m) ==
    /\ Len(baseName(fi)) = 8
    /\ isValidGoProSuffix(fi)
    /\ (isValidGoProFirstFilePrefix(fi) \/ isValidGoProPrefix(fi))
    /\ Mid(baseName(fi), 4) \in DOMAIN m
    /\ ListContains(m[Mid(baseName(fi), 4)], filePath(fi))

\* Last loop: the files that are in no group, in input order.
RECURSIVE NonGoProPass(_, _)
NonGoProPass(list, m) ==
    IF list = <<>> THEN <<>>
    ELSE LET fi == removeFileScheme(Head(list))
         IN  (IF SkipAsGrouped(fi, m) THEN <<>> ELSE <<filePath(fi)>>)
             \o NonGoProPass(Tail(list), m)

\* The map at return.
groupedFiles(list) == SortGroups(SplitFilesPass(list, MainFilesPass(list, EmptyMap)))

sortedFileList(list) ==
    LET m == groupedFiles(list)
    IN  GoProFilesFirst(m) \o NonGoProPass(list, m)

\* One call of Util::sortedFileList(urls).
SortedFileList ==
    /\ op = "init"
    /\ goproFiles' = groupedFiles(urls)
    /\ result' = sortedFileList(urls)
    /\ op' = "sortedFileList"
    /\ UNCHANGED <<urls, hashVars, applyVars>>

-----------------------------------------------------------------------------
(* Files and byte arrays.  A file is its size and the set of the positions *)
(* whose byte is 1, every other byte being 0; a QByteArray likewise.  The  *)
(* sizes that matter lie around one and two million bytes, so the content  *)
(* is kept sparse instead of as a sequence of bytes.                       *)

HashChunk == 1000000

Min(a, b) == IF a < b THEN a ELSE b

\* QFile::read(maxSize) at position pos: the bytes pos .. pos + maxSize - 1
\* that exist.
FileRead(file, pos, maxSize) ==
    LET n == Min(maxSize, file.size - pos)
    IN  [len |-> n, ones |-> { q - pos : q \in { o \in file.ones : pos <= o /\ o < pos + n } }]

\* QFile::readAll at position pos: everything from pos to the end.
FileReadAll(file, pos) == FileRead(file, pos, file.size - pos)

\* QFile::seek(pos) on an open QFile: accepted for every position >= 0.
FileSeek(file, pos) == pos >= 0

\* QByteArray::append
ByteArrayAppend(a, b) == [len |-> a.len + b.len, ones |-> a.ones \cup { a.len + o : o \in b.ones }]

\* QCryptographicHash::hash(data, Md5).toHex(): the digest is kept as the text
\* of the data it was computed from (no two inputs collide); never empty.
Md5Hex(data) == "md5:" \o ToString(data.len) \o ":" \o ToString(data.ones)

\* A mutation of the sampling: the seek is missing, the tail is read from
\* where the first read stopped.
ReadSample_NoSeek(file) ==
    IF file.size > HashChunk * 2
    THEN LET head == FileRead(file, 0, HashChunk)
         IN  ByteArrayAppend(head, FileReadAll(file, head.len))
    ELSE FileReadAll(file, 0)

\* The bytes getFileHash reads of an open file.
ReadSample(file) ==
    IF file.size > HashChunk * 2
    THEN LET head == FileRead(file, 0, HashChunk)
         IN  IF FileSeek(file, file.size - HashChunk)
             THEN ByteArrayAppend(head, FileReadAll(file, file.size - HashChunk))
             ELSE head
    ELSE FileReadAll(file, 0)

\* QFile(path).open(QIODevice::ReadOnly)
CanOpen(d, p) == p \in DOMAIN d /\ d[p] # NoFile

\* Util::getFileHash: the digest, the empty string if the file does not open.
getFileHash(d, p) == IF CanOpen(d, p) THEN Md5Hex(ReadSample(d[p])) ELSE ""

\* A direct call of Util::getFileHash(p).
GetFileHashCall(p) ==
    /\ hashPath' = p
    /\ opened' = IF CanOpen(disk, p) THEN disk[p] ELSE NoFile
    /\ fileData' = IF CanOpen(disk, p) THEN ReadSample(disk[p]) ELSE NoData
    /\ ret' = getFileHash(disk, p)

-----------------------------------------------------------------------------
(* Util::getHash                                                           *)

\* QString(properties.get(name)): a property that is not set reads as "".
QStr(v) == IF v = Null THEN "" ELSE v

\* A mutation of the memo test: the stored hash is never used.
HashIsEmpty_Always(props) == TRUE

\* hash.isEmpty() of the stored hash property.
HashIsEmpty(props) == QStr(props.hash) = ""

\* The resource whose file getHash hashes.
HashResource(props) ==
    IF props.is_proxy # 0 /\ props.original_resource # Null THEN QStr(props.original_resource)
    ELSE IF QStr(props.mlt_service) = "timewarp" THEN QStr(props.warp_resource)
    ELSE IF QStr(props.mlt_service) = "vidstab" THEN QStr(props.filename)
    ELSE QStr(props.resource)

\* A mutation of the store: the digest is stored whether or not it is empty.
StoreHash_Always(props, hash) == [props EXCEPT !.hash = hash]

\* if (!hash.isEmpty()) properties.set(kShotcutHashProperty, hash)
StoreHash(props, hash) == IF hash # "" THEN [props EXCEPT !.hash = hash] ELSE props

GetHash ==
    /\ IF HashIsEmpty(properties)
       THEN /\ GetFileHashCall(HashResource(properties))
            /\ properties' = StoreHash(properties, getFileHash(disk, HashResource(properties)))
       ELSE /\ ret' = QStr(properties.hash)
            /\ hashPath' = NoCall
            /\ opened' = NoFile
            /\ fileData' = NoData
            /\ UNCHANGED properties
    /\ op' = "getHash"
    /\ UNCHANGED <<disk, sortVars, applyVars>>

GetFileHash ==
    /\ \E p \in DOMAIN disk \cup {""} : GetFileHashCall(p)
    /\ op' = "getFileHash"
    /\ UNCHANGED <<disk, properties, sortVars, applyVars>>

\* The files of the memoisation model: two contents, both hashed in full.
SmallFiles == { [size |-> 1, ones |-> {}], [size |-> 1, ones |-> {0}] }

\* The file at a path is created, rewritten or removed by someone else.
WriteFile ==
    /\ \E p \in DOMAIN disk, f \in SmallFiles \cup {NoFile} :
        /\ disk[p] # f
        /\ disk' = [disk EXCEPT ![p] = f]
    /\ op' = "writeFile"
    /\ UNCHANGED <<properties, ret, hashPath, opened, fileData, sortVars, applyVars>>

\* The owner of the properties object sets one of the properties getHash reads.
PropertyValues ==
    [ mlt_service |-> {"avformat", "timewarp", "vidstab"},
      resource |-> {"a.mp4", "b.mp4"},
      warp_resource |-> {Null, "b.mp4"},
      filename |-> {Null, "a.mp4"},
      is_proxy |-> {0, 1},
      original_resource |-> {Null, "b.mp4"} ]

SetProperty ==
    /\ \E name \in DOMAIN PropertyValues : \E v \in PropertyValues[name] :
        /\ properties[name] # v
        /\ properties' = [properties EXCEPT ![name] = v]
    /\ op' = "setProperty"
    /\ UNCHANGED <<disk, ret, hashPath, opened, fileData, sortVars, applyVars>>

-----------------------------------------------------------------------------
(* Util::applyCustomProperties                                             *)

\* The values of warp_speed the model uses: the property's text and the
\* double it parses to, as a fraction.
WarpSpeeds ==
    { [text |-> "2", num |-> 2, den |-> 1],
      [text |-> "0.5", num |-> 1, den |-> 2],
      [text |-> "-1", num |-> -1, den |-> 1] }

\* source.get_double("warp_speed")
WarpSpeed(text) == CHOOSE w \in WarpSpeeds : w.text = text

Abs(x) == IF x < 0 THEN 0 - x ELSE x

\* qRound of the non-negative fraction a / b.
RoundDiv(a, b) == (2 * a + b) \div (2 * b)

\* The length property is a frame count or, once written by frames_to_time,
\* a clock time in milliseconds; at 25 frames per second.
LengthInFrames(n) == [unit |-> "frames", value |-> n]

\* destination.frames_to_time(length, mlt_time_clock)
frames_to_time(frames) == [unit |-> "clock", value |-> frames * 40]

\* destination.get_length()
get_length(length) ==
    IF length.unit = "frames" THEN length.value ELSE RoundDiv(length.value, 40)

\* p.clear(...) of the custom properties.
ClearCustom(dest) ==
    [dest EXCEPT !.warp_speed = Null,
                 !.comment = Null,
                 !.original_resource = IF dest.is_proxy = 0 THEN Null ELSE @]

\* destination.pass_list(source, ...): a property the source has is copied.
PassList(dest, src) ==
    [dest EXCEPT !.mlt_service = IF src.mlt_service # Null THEN src.mlt_service ELSE @,
                 !.warp_speed = IF src.warp_speed # Null THEN src.warp_speed ELSE @,
                 !.comment = IF src.comment # Null THEN src.comment ELSE @,
                 !.original_resource = IF src.original_resource # Null THEN src.original_resource ELSE @]

\* A mutation of the test below: the resource is saved on every call.
NotYetSaved_Always(dest) == TRUE

\* !destination.get("_shotcut:resource")
NotYetSaved(dest) == dest.shotcut_resource = Null

SaveOriginal(dest) ==
    IF NotYetSaved(dest)
    THEN [dest EXCEPT !.shotcut_resource = dest.resource, !.shotcut_length = dest.length]
    ELSE dest

\* The branch for a timewarp source.
ApplyTimewarp(dest, src) ==
    LET speed == Abs(WarpSpeed(src.warp_speed).num)
        den == WarpSpeed(src.warp_speed).den
        length == RoundDiv(get_length(dest.length) * den, speed)
    IN  [dest EXCEPT !.warp_resource = dest.shotcut_resource,
                     !.resource = "timewarp" \o ":" \o src.warp_speed \o ":" \o dest.shotcut_resource,
                     !.length = frames_to_time(length)]

\* The branch for any other source.
RestoreOriginal(dest) ==
    [dest EXCEPT !.warp_resource = Null,
                 !.resource = dest.shotcut_resource,
                 !.length = dest.shotcut_length]

\* destination.set_in_and_out(in, out): both kept inside the length, in order.
set_in_and_out(dest, in, out) ==
    LET len == get_length(dest.length)
        i == IF in < 0 THEN 0 ELSE IF in >= len THEN len - 1 ELSE in
        o == IF out < 0 \/ out >= len THEN len - 1 ELSE out
    IN  [dest EXCEPT !.in = IF o < i THEN o ELSE i, !.out = IF o < i THEN i ELSE o]

applyCustomProperties(dest, src, in, out) ==
    LET saved == SaveOriginal(PassList(ClearCustom(dest), src))
        set == IF src.mlt_service = "timewarp" THEN ApplyTimewarp(saved, src) ELSE RestoreOriginal(saved)
    IN  set_in_and_out(set, in, out)

MaxFrames == 400

Sources ==
    { [mlt_service |-> "avformat", warp_speed |-> Null, comment |-> c, original_resource |-> Null] :
          c \in {Null, "a comment"} }
    \cup
    { [mlt_service |-> "timewarp", warp_speed |-> w.text, comment |-> Null, original_resource |-> o] :
          w \in WarpSpeeds, o \in {Null, "o.mp4"} }

ApplyCustomProperties ==
    /\ \E src \in Sources, io \in { <<0, 9>>, <<20, 5>> } :
        /\ get_length(applyCustomProperties(destination, src, io[1], io[2]).length) <= MaxFrames
        /\ destination' = applyCustomProperties(destination, src, io[1], io[2])
        /\ source' = src
    /\ op' = "applyCustomProperties"
    /\ UNCHANGED <<sortVars, hashVars>>

-----------------------------------------------------------------------------

InitSort ==
    /\ urls \in UrlLists
    /\ result = <<>>
    /\ goproFiles = EmptyMap

InitHashIdle ==
    /\ disk = <<>>
    /\ properties = <<>>
    /\ ret = ""
    /\ hashPath = NoCall
    /\ opened = NoFile
    /\ fileData = NoData

InitApplyIdle ==
    /\ destination = <<>>
    /\ source = <<>>

SortInit == InitSort /\ InitHashIdle /\ InitApplyIdle /\ op = "init"
SortNext == SortedFileList
SpecSort == SortInit /\ [][SortNext]_vars

\* The files of the sampling model: sizes around zero, one, two and three
\* chunks, any of the bytes next to the sampling boundaries set.
MaxDelta == 2

FileSizes ==
    UNION { { d, HashChunk + d, HashChunk * 2 - d, HashChunk * 2 + d, HashChunk * 3 + d } : d \in 0..MaxDelta }

Probes(n) ==
    { q \in { 0, HashChunk - 1, HashChunk, n - HashChunk - 1, n - HashChunk, n - 1 } : 0 <= q /\ q < n }

Files == UNION { { [size |-> n, ones |-> o] : o \in { S \in SUBSET Probes(n) : Cardinality(S) <= 2 } } : n \in FileSizes }

InitSortIdle ==
    /\ urls = <<>>
    /\ result = <<>>
    /\ goproFiles = EmptyMap

\* getFileHash as a function of the file: one call on a file drawn from Files.
FileHashInit ==
    /\ disk \in [ {"a.mp4"} -> Files \cup {NoFile} ]
    /\ properties = <<>>
    /\ ret = ""
    /\ hashPath = NoCall
    /\ opened = NoFile
    /\ fileData = NoData
    /\ op = "init"
    /\ InitSortIdle /\ InitApplyIdle
FileHashNext == op = "init" /\ GetFileHash
SpecFileHash == FileHashInit /\ [][FileHashNext]_vars

\* getHash over the life of one properties object, the files and the other
\* properties changing under it.
HashInit ==
    /\ disk = [ p \in {"a.mp4", "b.mp4"} |-> NoFile ]
    /\ properties = [ hash |-> Null, mlt_service |-> "avformat", resource |-> "a.mp4",
                      warp_resource |-> Null, filename |-> Null, is_proxy |-> 0,
                      original_resource |-> Null ]
    /\ ret = ""
    /\ hashPath = NoCall
    /\ opened = NoFile
    /\ fileData = NoData
    /\ op = "init"
    /\ InitSortIdle /\ InitApplyIdle
HashNext == GetHash \/ GetFileHash \/ WriteFile \/ SetProperty
SpecHash == HashInit /\ [][HashNext]_vars

\* applyCustomProperties, called again and again on one destination producer.
ApplyInit ==
    /\ destination \in
          { [ resource |-> r, length |-> LengthInFrames(n), shotcut_resource |-> Null,
              shotcut_length |-> Null, warp_resource |-> Null, mlt_service |-> "avformat",
              warp_speed |-> Null, comment |-> Null, is_proxy |-> x, original_resource |-> Null,
              in |-> 0, out |-> n - 1 ] :
            r \in {"a.mp4", "b.mp4"}, n \in {100, 30}, x \in {0, 1} }
    /\ source = <<>>
    /\ op = "init"
    /\ InitSortIdle /\ InitHashIdle
ApplyNext == ApplyCustomProperties
SpecApply == ApplyInit /\ [][ApplyNext]_vars

-----------------------------------------------------------------------------
(* The GoPro naming convention, as the claims about sortedFileList state   *)
(* it: the vocabulary of the properties below, not a part of the model.    *)

Range(seq) == { seq[i] : i \in 1..Len(seq) }

Count(seq, x) == Cardinality({ i \in 1..Len(seq) : seq[i] = x })

RECURSIVE Project(_, _)
Project(seq, S) ==
    IF seq = <<>> THEN <<>>
    ELSE (IF Head(seq) \in S THEN <<Head(seq)>> ELSE <<>>) \o Project(Tail(seq), S)

\* The input of the call as file references.
InputRefs == [i \in 1..Len(urls) |-> removeFileScheme(urls[i])]

IsClipCandidate(f) ==
    /\ Len(baseName(f)) = 8
    /\ ToUpper(suffix(f)) \in { <<77, 80, 52>>, <<76, 82, 86>>, <<51, 54, 48>> }

IsFirstFile(f) ==
    /\ IsClipCandidate(f)
    /\ ToUpper(SubSeq(baseName(f), 1, 4)) \in { <<71, 79, 80, 82>>, <<71, 72, 48, 49>>, <<71, 83, 48, 49>> }

IsContinuationFile(f) ==
    /\ IsClipCandidate(f)
    /\ ToUpper(SubSeq(baseName(f), 1, 2)) \in { <<71, 80>>, <<71, 72>>, <<71, 83>> }

ClipKey(f) == SubSeq(baseName(f), 5, 8)

\* f has a first file of its clip key in the input.
HasFirstFile(f) == \E g \in Range(InputRefs) : IsFirstFile(g) /\ ClipKey(g) = ClipKey(f)

\* f belongs to a clip of the input by its name.
BelongsToClip(f) == IsFirstFile(f) \/ (IsContinuationFile(f) /\ HasFirstFile(f))

\* f is a continuation file whose clip has no first file in the input.
IsOrphan(f) == IsContinuationFile(f) /\ ~HasFirstFile(f)

\* The files the call emitted in a group, and what follows them in the output.
EmittedInGroup == UNION { Range(goproFiles[k]) : k \in DOMAIN goproFiles }
GroupSection == GoProFilesFirst(goproFiles)
TrailingSection == SubSeq(result, Len(GroupSection) + 1, Len(result))

Returned == op = "sortedFileList"

\* C1: the output holds every input file reference exactly as often as the
\* input does, and no file is both in a group and in the trailing section.
C1_Completeness ==
    Returned =>
        /\ \A f \in Range(InputRefs) \cup Range(result) : Count(result, f) = Count(InputRefs, f)
        /\ Range(TrailingSection) \cap EmittedInGroup = {}

C1_Witness ==
    /\ Returned
    /\ Count(InputRefs, gh010003_mp4) = 2
    /\ GOPR0012_MP4 \in Range(InputRefs)
    /\ Len(result) = 4

HasSplitClip ==
    \E f, g \in Range(InputRefs) :
        IsFirstFile(f) /\ IsContinuationFile(g) /\ ~IsFirstFile(g) /\ ClipKey(f) = ClipKey(g)

\* C2: a first file and the continuations of its clip key come out together,
\* ascending by path, ahead of every file of no group, whatever the input
\* order; the four files of the example come out in the order stated.
C2_GroupedAhead ==
    (Returned /\ HasSplitClip) =>
        /\ \A i, j \in 1..Len(result) :
              (i < j /\ BelongsToClip(result[j])) => BelongsToClip(result[i])
        /\ \A i, j \in 1..Len(result) :
              (/\ i < j /\ BelongsToClip(result[i]) /\ BelongsToClip(result[j])
               /\ ClipKey(result[i]) = ClipKey(result[j]))
              => /\ ~StrLess(result[j], result[i])
                 /\ \A k \in i..j : ClipKey(result[k]) = ClipKey(result[i])
        /\ (Range(InputRefs) = {GOPR0012_MP4, GP020012_MP4, GP030012_MP4, clip_mov} /\ Len(urls) = 4)
              => result = <<GOPR0012_MP4, GP020012_MP4, GP030012_MP4, clip_mov>>

\* C5: a continuation file without a first file of its key is in no group and
\* is in the trailing section as often as in the input, in its input order
\* relative to every other file of the trailing section.
C5_OrphanKept ==
    Returned =>
        \A f \in Range(InputRefs) :
            IsOrphan(f) =>
                /\ f \notin EmittedInGroup
                /\ Count(TrailingSection, f) = Count(InputRefs, f)
                /\ \A g \in Range(TrailingSection) :
                      Project(TrailingSection, {f, g}) = Project(InputRefs, {f, g})

C5_Witness ==
    /\ Returned
    /\ GP029999_MP4 \in Range(InputRefs)
    /\ IsOrphan(GP029999_MP4)
    /\ Len(urls) >= 3
    /\ InputRefs[1] # GP029999_MP4
    /\ InputRefs[Len(urls)] # GP029999_MP4

NoGoProFile == \A f \in Range(InputRefs) : ~IsFirstFile(f) /\ ~IsContinuationFile(f)

\* C6: an input without any file of the GoPro pattern, the empty one
\* included, is returned element for element.
C6_Unchanged == (Returned /\ NoGoProFile) => result = InputRefs

C6_Witness ==
    /\ Returned
    /\ NoGoProFile
    /\ InputRefs = <<my_clip_mov, ABCD0012_MP4, clip_mov>>
    /\ result = InputRefs

SeveralGroups ==
    \E f, g \in Range(InputRefs) : IsFirstFile(f) /\ IsFirstFile(g) /\ ClipKey(f) # ClipKey(g)

\* C7: with first files of several clip keys in the input, the members of a
\* group are contiguous and ascending by path, and the groups are in
\* ascending order of their keys.
C7_GroupsInKeyOrder ==
    (Returned /\ SeveralGroups) =>
        \A i, j \in 1..Len(result) :
            (i < j /\ BelongsToClip(result[i]) /\ BelongsToClip(result[j])) =>
                IF ClipKey(result[i]) = ClipKey(result[j])
                THEN /\ ~StrLess(result[j], result[i])
                     /\ \A k \in i..j : BelongsToClip(result[k]) /\ ClipKey(result[k]) = ClipKey(result[i])
                ELSE StrLess(ClipKey(result[i]), ClipKey(result[j]))

\* C8: the output is the groups followed by the trailing section, and the
\* trailing section is the input without the files emitted in a group.
C8_TrailingInInputOrder ==
    Returned =>
        /\ SubSeq(result, 1, Len(GroupSection)) = GroupSection
        /\ TrailingSection = Project(InputRefs, Range(InputRefs) \ EmittedInGroup)

C8_Witness ==
    /\ Returned
    /\ Len(TrailingSection) = 4
    /\ TrailingSection[1] = clip_mov
    /\ TrailingSection[3] = clip_mov
    /\ IsOrphan(TrailingSection[2])

-----------------------------------------------------------------------------
(* Properties of getFileHash and getHash.                                  *)

\* C3: a file of at most 2,000,000 bytes is hashed over all its bytes; a
\* larger one over its first 1,000,000 bytes followed by its last 1,000,000,
\* the size - 2,000,000 bytes between them left out.
C3_SampledBytes ==
    (op = "getFileHash" /\ opened # NoFile) =>
        /\ ret = Md5Hex(fileData)
        /\ opened.size <= 2000000 =>
              /\ fileData.len = opened.size
              /\ fileData.ones = opened.ones
        /\ opened.size > 2000000 =>
              /\ fileData.len = 2000000
              /\ opened.size - fileData.len = Cardinality(1000000..(opened.size - 1000001))
              /\ fileData.ones =
                    { o \in opened.ones : o < 1000000 }
                    \cup { o - (opened.size - 2000000) : o \in { q \in opened.ones : q >= opened.size - 1000000 } }

C3_Witness ==
    /\ op = "getFileHash"
    /\ opened # NoFile
    /\ opened.size = 2000001
    /\ opened.ones = {999999, 1000000}
    /\ fileData = [len |-> 2000000, ones |-> {999999}]

\* C4: getFileHash of a file that does not open returns the empty string;
\* getHash for such a resource returns the empty string and leaves the hash
\* property unset, and a getHash that finds it unset calls getFileHash.
C4_UnreadableFile ==
    [][ /\ (op' \in {"getFileHash", "getHash"} /\ hashPath' # NoCall /\ ~CanOpen(disk, hashPath'))
            => ret' = ""
        /\ (op' = "getHash" /\ properties.hash = Null /\ hashPath' # NoCall /\ ~CanOpen(disk, hashPath'))
            => properties'.hash = Null
        /\ (op' = "getHash" /\ properties.hash = Null)
            => hashPath' # NoCall
      ]_vars

C4_Witness ==
    /\ op = "getHash"
    /\ hashPath = "b.mp4"
    /\ ~CanOpen(disk, "b.mp4")
    /\ CanOpen(disk, "a.mp4")
    /\ ret = ""
    /\ properties.hash = Null

\* C9: a getHash that computes a digest stores it in the hash property; a
\* getHash that finds the property set returns it without calling
\* getFileHash and without writing, whatever the files and the other
\* properties are by then; the hash property is written by getHash alone
\* and never with an empty value.
C9_Memoised ==
    [][ /\ (op' = "getHash" /\ properties.hash = Null /\ ret' # "")
            => properties'.hash = ret'
        /\ (op' = "getHash" /\ properties.hash # Null)
            => (ret' = properties.hash /\ hashPath' = NoCall /\ properties' = properties)
        /\ (properties'.hash # properties.hash)
            => (op' = "getHash" /\ properties'.hash \notin {Null, ""})
      ]_vars

\* The stored digest is returned although the file it came from is gone and
\* the resource now names another file.
C9_Witness ==
    /\ op = "getHash"
    /\ hashPath = NoCall
    /\ ret = Md5Hex([len |-> 1, ones |-> {0}])
    /\ properties.hash = ret
    /\ HashResource(properties) = "b.mp4"
    /\ disk["a.mp4"] = NoFile
    /\ disk["b.mp4"] = [size |-> 1, ones |-> {}]

-----------------------------------------------------------------------------
(* Properties of applyCustomProperties.                                    *)

\* C10: _shotcut:resource and _shotcut:length are written by the first call
\* only, with the destination's resource and length of that moment; a call
\* with a source that is not timewarp leaves resource and length at the saved
\* values and warp_resource unset; a call with a timewarp source leaves
\* resource at timewarp:<warp_speed>:<saved resource> and warp_resource at
\* the saved resource, the saved resource being a plain file still.
C10_SavedResource ==
    [][ /\ destination.shotcut_resource = Null =>
              /\ destination'.shotcut_resource = destination.resource
              /\ destination'.shotcut_length = destination.length
        /\ destination.shotcut_resource # Null =>
              /\ destination'.shotcut_resource = destination.shotcut_resource
              /\ destination'.shotcut_length = destination.shotcut_length
        /\ source'.mlt_service # "timewarp" =>
              /\ destination'.resource = destination'.shotcut_resource
              /\ destination'.length = destination'.shotcut_length
              /\ destination'.warp_resource = Null
        /\ source'.mlt_service = "timewarp" =>
              /\ destination'.resource
                    = "timewarp:" \o source'.warp_speed \o ":" \o destination'.shotcut_resource
              /\ destination'.warp_resource = destination'.shotcut_resource
        /\ destination'.shotcut_resource \in {"a.mp4", "b.mp4"}
      ]_vars

\* Two timewarp calls in a row: the length was scaled twice, the resource
\* carries one prefix.
C10_Witness ==
    /\ op = "applyCustomProperties"
    /\ source.mlt_service = "timewarp"
    /\ destination.shotcut_length = LengthInFrames(100)
    /\ get_length(destination.length) = 400
    /\ destination.resource = "timewarp:0.5:a.mp4"
    /\ destination.warp_resource = "a.mp4"

====
